---- MODULE Spec2Model ----
(***************************************************************************)
(* Text mirror (YAML front matter) parsing and the save/update flows of    *)
(* the Atlassian tools extension: the Confluence page tool with its        *)
(* version-conflict retry, the "Save to Confluence" and "Save to Jira"     *)
(* commands and the Jira update tool, against a remote that arbitrates     *)
(* page versions.                                                          *)
(***************************************************************************)
EXTENDS Integers, Sequences, FiniteSets, TLC

(***************************************************************************)
(* Bounds                                                                  *)
(***************************************************************************)
MaxLines == 4
MaxVersion == 5

(***************************************************************************)
(* JavaScript values that occur in a parsed front matter                   *)
(***************************************************************************)
Undef == [ty |-> "undef", s |-> "", n |-> 0]

Str(x) == [ty |-> "str", s |-> x, n |-> 0]

Num(k) == [ty |-> "num", s |-> "", n |-> k]

\* JavaScript truthiness: undefined, '' and 0 are falsy
Truthy(v) == \/ (v.ty = "str" /\ v.s # "")
             \/ (v.ty = "num" /\ v.n # 0)

\* a || b
OrElse(a, b) == IF Truthy(a) THEN a ELSE b

(***************************************************************************)
(* A text document is a sequence of lines.  A line is the marker '---',    *)
(* a blank line, a 'key: value' line, a line of plain text (markup), or a  *)
(* line that is not valid YAML (such as '{[').                             *)
(***************************************************************************)
MarkerLine == [t |-> "marker", k |-> "", v |-> Undef]

BlankLine == [t |-> "blank", k |-> "", v |-> Undef]

BadLine == [t |-> "bad", k |-> "", v |-> Undef]

Kv(key, val) == [t |-> "kv", k |-> key, v |-> val]

TextLine(x) == [t |-> "text", k |-> "", v |-> Str(x)]

\* the keys the converters read; a nested key of 'fields' is written fields.x
FmKeys == {"id", "key", "title", "type", "status", "spaceKey", "spaceName",
           "version", "projectKey", "fields.summary", "fields.description",
           "fields.priority", "fields.assigneeEmail", "fields.issuetype"}

MinOf(S) == CHOOSE x \in S : \A y \in S : x <= y

MarkerIdx(text) == {i \in DOMAIN text : text[i].t = "marker"}

\* yamlContent.split(/^---$/m): the runs of lines between marker lines
RECURSIVE SplitMarkers(_)
SplitMarkers(text) ==
    IF MarkerIdx(text) = {}
    THEN <<text>>
    ELSE LET i == MinOf(MarkerIdx(text))
         IN  <<SubSeq(text, 1, i - 1)>> \o SplitMarkers(SubSeq(text, i + 1, Len(text)))

\* parts.join('---')
RECURSIVE JoinMarkers(_)
JoinMarkers(parts) ==
    IF Len(parts) = 0 THEN <<>>
    ELSE IF Len(parts) = 1 THEN parts[1]
    ELSE parts[1] \o <<MarkerLine>> \o JoinMarkers(Tail(parts))

\* String.prototype.trim on a run of lines: leading and trailing blank lines go
RECURSIVE TrimLines(_)
TrimLines(ls) ==
    IF Len(ls) = 0 THEN ls
    ELSE IF ls[1].t = "blank" THEN TrimLines(Tail(ls))
    ELSE IF ls[Len(ls)].t = "blank" THEN TrimLines(SubSeq(ls, 1, Len(ls) - 1))
    ELSE ls

(***************************************************************************)
(* js-yaml's load on a block of lines.  The result is a mapping, a plain   *)
(* scalar, null, undefined (empty input), or an exception.                 *)
(***************************************************************************)
EmptyMap == [k \in FmKeys |-> Undef]

YamlValue(kind, m) == [kind |-> kind, m |-> m]

NonBlank(ls) == SelectSeq(ls, LAMBDA l : l.t # "blank")

\* one leading '---' only opens the document
DropDocStart(ls) == IF Len(ls) > 0 /\ ls[1].t = "marker" THEN Tail(ls) ELSE ls

KeysOf(ls) == {ls[i].k : i \in DOMAIN ls}

MapOf(ls) == [k \in FmKeys |->
                 IF \E i \in DOMAIN ls : ls[i].k = k
                 THEN ls[CHOOSE i \in DOMAIN ls : ls[i].k = k].v
                 ELSE Undef]

YamlLoad(block) ==
    LET ls == DropDocStart(NonBlank(block))
    IN  IF \E i \in DOMAIN ls : ls[i].t = "bad"
        THEN YamlValue("throw", EmptyMap)          \* YAMLException
        ELSE IF \E i \in DOMAIN ls : ls[i].t = "marker"
        THEN YamlValue("throw", EmptyMap)          \* more than one document
        ELSE IF Len(ls) = 0
        THEN YamlValue("undefined", EmptyMap)
        ELSE IF \A i \in DOMAIN ls : ls[i].t = "kv"
        THEN IF Cardinality(KeysOf(ls)) < Len(ls)
             THEN YamlValue("throw", EmptyMap)     \* duplicated mapping key
             ELSE YamlValue("map", MapOf(ls))
        ELSE IF \A i \in DOMAIN ls : ls[i].t = "text"
        THEN IF Len(ls) = 1 /\ ls[1].v.s = "null"
             THEN YamlValue("null", EmptyMap)
             ELSE YamlValue("scalar", EmptyMap)
        ELSE YamlValue("throw", EmptyMap)          \* text mixed into a mapping

\* reading a property of the loaded value throws on null and undefined
PropThrows(data) == data.kind \in {"throw", "undefined", "null"}

Prop(data, key) == IF data.kind = "map" THEN data.m[key] ELSE Undef

(***************************************************************************)
(* confluenceYamlConverters                                                *)
(***************************************************************************)
PageParts_m(yamlContent) ==
    LET parts == SplitMarkers(yamlContent)
    IN  IF Len(parts) >= 2
        THEN [frontmatter |-> YamlLoad(parts[2]),
              content |-> TrimLines(JoinMarkers(SubSeq(parts, 3, Len(parts))))]
        ELSE [frontmatter |-> YamlValue("map", EmptyMap),
              content |-> yamlContent]

\* the front matter and the content both converters start from
PageParts(yamlContent) ==
    LET parts == SplitMarkers(yamlContent)
    IN  IF Len(parts) >= 3
        THEN [frontmatter |-> YamlLoad(parts[2]),
              content |-> TrimLines(JoinMarkers(SubSeq(parts, 3, Len(parts))))]
        ELSE [frontmatter |-> YamlValue("map", EmptyMap),
              content |-> yamlContent]

PageThrown == [threw |-> TRUE, id |-> Undef, type |-> Undef, status |-> Undef,
               title |-> Undef, spaceKey |-> Undef, spaceName |-> Undef,
               version |-> Undef, body |-> <<>>]

yamlToPage(yamlContent) ==
    LET p  == PageParts(yamlContent)
        fm == p.frontmatter
    IN  IF PropThrows(fm) THEN PageThrown
        ELSE [threw     |-> FALSE,
              id        |-> Prop(fm, "id"),
              type      |-> OrElse(Prop(fm, "type"), Str("page")),
              status    |-> OrElse(Prop(fm, "status"), Str("current")),
              title     |-> OrElse(Prop(fm, "title"), Str("Untitled")),
              spaceKey  |-> IF Truthy(Prop(fm, "spaceKey"))
                            THEN Prop(fm, "spaceKey") ELSE Undef,
              spaceName |-> IF Truthy(Prop(fm, "spaceKey"))
                            THEN OrElse(Prop(fm, "spaceName"), Prop(fm, "spaceKey"))
                            ELSE Undef,
              version   |-> IF Truthy(Prop(fm, "version"))
                            THEN Prop(fm, "version") ELSE Undef,
              body      |-> p.content]

ExtractThrown == [threw |-> TRUE, title |-> Undef, content |-> <<>>, version |-> Undef]

extractPageContent(yamlContent) ==
    LET p  == PageParts(yamlContent)
        fm == p.frontmatter
    IN  IF PropThrows(fm) THEN ExtractThrown
        ELSE [threw   |-> FALSE,
              title   |-> OrElse(Prop(fm, "title"), Str("Untitled")),
              content |-> p.content,
              version |-> OrElse(Prop(fm, "version"), Num(1))]

(***************************************************************************)
(* formatters: the Jira issue converters                                   *)
(***************************************************************************)
IssueThrown == [threw |-> TRUE, key |-> Undef, id |-> Undef, summary |-> Undef,
                assigneeEmail |-> Undef, priority |-> Undef]

yamlToIssue(yamlContent) ==
    LET data == YamlLoad(yamlContent)
    IN  IF PropThrows(data) THEN IssueThrown
        ELSE [threw         |-> FALSE,
              key           |-> Prop(data, "key"),
              id            |-> Prop(data, "id"),
              summary       |-> OrElse(Prop(data, "fields.summary"), Str("")),
              assigneeEmail |-> IF Truthy(Prop(data, "fields.assigneeEmail"))
                                THEN Prop(data, "fields.assigneeEmail") ELSE Undef,
              priority      |-> IF Truthy(Prop(data, "fields.priority"))
                                THEN Prop(data, "fields.priority") ELSE Undef]

FieldsThrown == [threw |-> TRUE, summary |-> Undef, description |-> Undef,
                 priority |-> Undef, assignee |-> Undef,
                 projectKey |-> Undef, issuetype |-> Undef]

\* the assignee written whenever the key is there, empty or not
extractIssueFields_m(yamlContent) ==
    LET data == YamlLoad(yamlContent)
    IN  IF PropThrows(data) THEN FieldsThrown
        ELSE [threw       |-> FALSE,
              summary     |-> Prop(data, "fields.summary"),
              description |-> IF Truthy(Prop(data, "fields.description"))
                              THEN Prop(data, "fields.description") ELSE Undef,
              priority    |-> IF Truthy(Prop(data, "fields.priority"))
                              THEN Prop(data, "fields.priority") ELSE Undef,
              assignee    |-> Prop(data, "fields.assigneeEmail"),
              projectKey  |-> Undef,
              issuetype   |-> Undef]

\* the returned object holds summary, description, priority and assignee only:
\* its projectKey and issuetype properties are always undefined
extractIssueFields(yamlContent) ==
    LET data == YamlLoad(yamlContent)
    IN  IF PropThrows(data) THEN FieldsThrown
        ELSE [threw       |-> FALSE,
              summary     |-> Prop(data, "fields.summary"),
              description |-> IF Truthy(Prop(data, "fields.description"))
                              THEN Prop(data, "fields.description") ELSE Undef,
              priority    |-> IF Truthy(Prop(data, "fields.priority"))
                              THEN Prop(data, "fields.priority") ELSE Undef,
              assignee    |-> IF Truthy(Prop(data, "fields.assigneeEmail"))
                              THEN Prop(data, "fields.assigneeEmail") ELSE Undef,
              projectKey  |-> Undef,
              issuetype   |-> Undef]

(***************************************************************************)
(* The serializers.  A remote entity carries the fields the remote always  *)
(* sends (id, title, type, status, key, summary, created, updated); the    *)
(* optional ones (space, version, description, assignee, priority) may be  *)
(* undefined.                                                              *)
(***************************************************************************)
\* yaml.dump of an object: one 'key: value' line per property, in the order the
\* properties were inserted; strings are quoted where a plain scalar would
\* read back as something else, so a value reads back as it was written
RECURSIVE yamlDump(_)
yamlDump(pairs) ==
    IF Len(pairs) = 0 THEN <<>>
    ELSE <<Kv(pairs[1][1], pairs[1][2])>> \o yamlDump(Tail(pairs))

\* page.body?.storage?.value || page.body?.view?.value || ''
PageContent(page) == IF page.storage # <<>> THEN page.storage ELSE page.view

pageToYaml_m(page) ==
    <<MarkerLine>>
    \o yamlDump(<< <<"entityType", Str("page")>>,
                   <<"id", page.id>>,
                   <<"title", page.title>>,
                   <<"type", page.type>>,
                   <<"status", page.status>>,
                   <<"spaceKey", OrElse(page.spaceKey, Str(""))>>,
                   <<"spaceName", OrElse(page.spaceName, Str(""))>>,
                   <<"version", Num(1)>> >>)
    \o <<MarkerLine, BlankLine>>
    \o PageContent(page)

\* `---\n${yamlFrontmatter}---\n\n${content}`
pageToYaml(page) ==
    <<MarkerLine>>
    \o yamlDump(<< <<"entityType", Str("page")>>,
                   <<"id", page.id>>,
                   <<"title", page.title>>,
                   <<"type", page.type>>,
                   <<"status", page.status>>,
                   <<"spaceKey", OrElse(page.spaceKey, Str(""))>>,
                   <<"spaceName", OrElse(page.spaceName, Str(""))>>,
                   <<"version", OrElse(page.version, Num(1))>> >>)
    \o <<MarkerLine, BlankLine>>
    \o PageContent(page)

templateContent ==
    <<TextLine("<h1>New Page</h1>"),
      TextLine("<p>Start editing your Confluence page here...</p>"),
      TextLine("<p>You can use HTML or Confluence storage format.</p>")>>

newPageToYaml_m(spaceKey, parentId) ==
    <<MarkerLine>>
    \o yamlDump(<< <<"entityType", Str("page")>>,
                   <<"id", OrElse(parentId, Str(""))>>,
                   <<"title", Str("New Page Title")>>,
                   <<"type", Str("page")>>,
                   <<"status", Str("current")>>,
                   <<"spaceKey", spaceKey>>,
                   <<"parentId", OrElse(parentId, Str(""))>>,
                   <<"version", Num(1)>> >>)
    \o <<MarkerLine, BlankLine>>
    \o templateContent

newPageToYaml(spaceKey, parentId) ==
    <<MarkerLine>>
    \o yamlDump(<< <<"entityType", Str("page")>>,
                   <<"id", Str("new")>>,
                   <<"title", Str("New Page Title")>>,
                   <<"type", Str("page")>>,
                   <<"status", Str("current")>>,
                   <<"spaceKey", spaceKey>>,
                   <<"parentId", OrElse(parentId, Str(""))>>,
                   <<"version", Num(1)>> >>)
    \o <<MarkerLine, BlankLine>>
    \o templateContent

\* the properties of data.fields that issueToYaml always writes
IssueFields(issue) ==
    << <<"fields.summary", issue.summary>>,
       <<"fields.description", OrElse(issue.description, Str(""))>>,
       <<"fields.status", OrElse(issue.status, Str(""))>>,
       <<"fields.assignee", OrElse(issue.assigneeName, Str(""))>>,
       <<"fields.assigneeEmail", OrElse(issue.assigneeEmail, Str(""))>>,
       <<"fields.reporter", OrElse(issue.reporterName, Str(""))>>,
       <<"fields.reporterEmail", OrElse(issue.reporterEmail, Str(""))>>,
       <<"fields.priority", OrElse(issue.priority, Str(""))>>,
       <<"fields.issuetype", OrElse(issue.issuetype, Str(""))>>,
       <<"fields.created", issue.created>>,
       <<"fields.updated", issue.updated>> >>

\* Object.keys(issue.fields).filter(key => key.startsWith('customfield_')), with
\* the value of each
CustomFields(issue) ==
    [i \in DOMAIN issue.custom |-> <<issue.custom[i], Str("custom value")>>]

issueToYaml_m(issue) ==
    yamlDump(<< <<"entityType", Str("issue")>>,
                <<"key", issue.key>>,
                <<"id", issue.id>> >>
             \o CustomFields(issue) \o IssueFields(issue))

issueToYaml(issue) ==
    yamlDump(<< <<"entityType", Str("issue")>>,
                <<"key", issue.key>>,
                <<"id", issue.id>> >>
             \o IssueFields(issue) \o CustomFields(issue))

newIssueToYaml(projectKey) ==
    yamlDump(<< <<"entityType", Str("issue")>>,
                <<"key", Str("NEW")>>,
                <<"id", Str("new")>>,
                <<"projectKey", projectKey>>,
                <<"fields.summary", Str("New Issue Title")>>,
                <<"fields.description", Str("Issue description here...")>>,
                <<"fields.issuetype", Str("Task")>>,
                <<"fields.priority", Str("Medium")>>,
                <<"fields.assignee", Str("")>>,
                <<"fields.assigneeEmail", Str("")>> >>)

(***************************************************************************)
(* The remote and the request executor                                     *)
(***************************************************************************)
\* two invocations are followed: commands and tools are async handlers, and the
\* host may start one while another awaits an answer
Slots == {"first", "second"}

ConflictSignature == "Version must be incremented"

\* request(): a non-2xx answer rejects with `<api> API error: <status> - <data>`
ApiError(api, status, data) == <<api, " API error: ", status, " - ", data>>

\* request(): req.on('error') rejects with the socket error
SocketError == <<"socket hang up">>

\* a response body arrives in chunks; the text read is the chunks in a row
ValidJson == {<<"{}">>, <<"null">>, <<"{\"id\":\"42\"}">>, <<"{\"id\":", "\"42\"}">>}

\* JSON.parse of a text it accepts
JsonParse(data) ==
    IF data = <<"{}">> THEN [ty |-> "object", id |-> Undef]
    ELSE IF data = <<"null">> THEN [ty |-> "null", id |-> Undef]
    ELSE [ty |-> "object", id |-> Str("42")]

\* the {} an empty body resolves to
EmptyObject == [ty |-> "object", id |-> Undef]

RawText(data) == [ty |-> "text", text |-> data]

\* only the answer 200 taken for a success
requestEnd_m(api, statusCode, data) ==
    IF statusCode = 200
    THEN IF data = <<>>
         THEN [settled |-> "resolved", value |-> EmptyObject]
         ELSE IF data \in ValidJson
         THEN [settled |-> "resolved", value |-> JsonParse(data)]
         ELSE [settled |-> "resolved", value |-> RawText(data)]
    ELSE [settled |-> "rejected",
          value |-> <<api, " API error: ", ToString(statusCode), " - ">> \o data]

\* request(): res.on('end')
requestEnd(api, statusCode, data) ==
    IF statusCode # 0 /\ statusCode >= 200 /\ statusCode < 300
    THEN IF data = <<>>
         THEN [settled |-> "resolved", value |-> EmptyObject]
         ELSE IF data \in ValidJson
         THEN [settled |-> "resolved", value |-> JsonParse(data)]
         ELSE [settled |-> "resolved", value |-> RawText(data)]
    ELSE [settled |-> "rejected",
          value |-> <<api, " API error: ", ToString(statusCode), " - ">> \o data]

\* error.message.includes(part)
MessageIncludes(msg, part) == \E i \in DOMAIN msg : msg[i] = part

\* the version put in the request body as it was given
updatePageVersion_m(version) == version

\* ConfluenceHelper.updatePage: the version number put in the request body
updatePageVersion(version) == version + 1

\* what the remote answers to PUT content/{id} carrying version number n:
\* it accepts exactly the successor of its current version
PutPageOutcomes(n, current) ==
    {[ok |-> FALSE, version |-> 0, msg |-> SocketError],
     [ok |-> FALSE, version |-> 0, msg |-> ApiError("Confluence", "500", "Internal Server Error")],
     IF n = current + 1
     THEN [ok |-> TRUE, version |-> n, msg |-> <<>>]
     ELSE [ok |-> FALSE, version |-> 0, msg |-> ApiError("Confluence", "409", ConflictSignature)]}

\* what getPage resolves or rejects with; a 2xx answer with an empty body
\* resolves to {} and so carries no version.  The remote words the conflict
\* signature only in its answer to an update.
GetPageOutcomes(current) ==
    {[ok |-> TRUE, version |-> Num(current), msg |-> <<>>],
     [ok |-> TRUE, version |-> Undef, msg |-> <<>>],
     [ok |-> FALSE, version |-> Undef, msg |-> ApiError("Confluence", "404", "Not Found")],
     [ok |-> FALSE, version |-> Undef, msg |-> SocketError]}

\* answers to a request that carries no version (create, issue update, issue get)
PlainOutcomes(api) ==
    {[ok |-> TRUE, msg |-> <<>>],
     [ok |-> FALSE, msg |-> ApiError(api, "400", "Bad Request")],
     [ok |-> FALSE, msg |-> ApiError(api, "409", ConflictSignature)]}

\* errorHandler.handleToolError(error, context): a failed tool result that
\* carries the context line and the error's message
handleToolError(err, ctx) == ctx \o err

(***************************************************************************)
(* Documents the editor can hold                                           *)
(***************************************************************************)
PageFile == "page.confluence.yaml"

IssueFile == "issue.jira.yaml"

OptLine(key, val) == IF val = Undef THEN <<>> ELSE <<Kv(key, val)>>

\* the shape pageToYaml and newPageToYaml write
PageDoc(id, version, spaceKey) ==
    <<MarkerLine>> \o OptLine("id", id) \o <<Kv("title", Str("Spec"))>>
        \o OptLine("spaceKey", spaceKey) \o OptLine("version", version)
        \o <<MarkerLine, BlankLine, TextLine("<p>hello</p>")>>

PageDocs ==
    {PageDoc(Str("42"), v, Str("DOCS")) : v \in {Undef} \cup {Num(k) : k \in 0 .. MaxVersion}}
    \cup {PageDoc(Str("new"), Num(1), sk) : sk \in {Undef, Str("DOCS")}}
    \cup {PageDoc(Undef, Num(1), Str("DOCS")),
          <<TextLine("<p>hello</p>")>>,
          <<MarkerLine, BadLine, MarkerLine, TextLine("<p>hello</p>")>>,
          <<MarkerLine, MarkerLine, TextLine("<p>hello</p>")>>}

\* the shape issueToYaml and newIssueToYaml write
IssueDoc(key, id) ==
    OptLine("key", key) \o OptLine("id", id)
        \o <<Kv("fields.summary", Str("Spec")), Kv("fields.assigneeEmail", Str(""))>>

IssueDocs ==
    {IssueDoc(Str("PROJ-1"), Str("10001")),
     IssueDoc(Str("NEW"), Str("new")),
     IssueDoc(Str("PROJ-1"), Str("new")),
     IssueDoc(Undef, Str("10001")),
     <<>>,
     <<BadLine>>}

Editors ==
    {[file |-> "", text |-> <<>>]}
    \cup {[file |-> PageFile, text |-> d] : d \in PageDocs}
    \cup {[file |-> IssueFile, text |-> d] : d \in IssueDocs}

(***************************************************************************)
(* State                                                                   *)
(***************************************************************************)
\* no entity is being serialized
NoEntity == [kind |-> "none"]

\* the preview, the tree and the traversal are not in use
PreviewKeys == {"PROJ-1", "PROJ-2"}

\* a showIssue call that is not running, and no message being handled
NoShow == [pc |-> "idle", issueKey |-> ""]

NoHandler == [pc |-> "idle", command |-> "", issueKey |-> ""]

\* JiraIssueWebviewProvider's statics (currentPanel: 0 for undefined, else the
\* index of the panel in panels; currentYamlUri: the file is named by the key
\* of the issue it was opened for), the panels created so far (handlerKey: the
\* issueKey its message handler closes over; shown: the issue its html was
\* made from), the showIssue calls and the message handler under way, the
\* issue each YAML file holds the serialization of, and the last mutating
\* action (the issue it was sent for, the issue the panel displayed then)
NoPanel == [currentPanel |-> 0, currentIssueKey |-> "", currentYamlUri |-> "",
            panels |-> <<>>, calls |-> [c \in {"yaml", "preview"} |-> NoShow],
            handler |-> NoHandler, files |-> [k \in PreviewKeys |-> ""],
            applied |-> [issue |-> "", displayed |-> ""]]

\* a getChildren call that is not running (element: the cache its element is
\* served from; before: the call began before the latest refresh(); result:
\* the data its items were made from)
NoCall == [pc |-> "idle", element |-> "", before |-> FALSE, result |-> "none"]

TreeCalls == {"a", "b"}

TreeCaches == {"spaces", "recent"}

\* the caches hold nothing ("null"), or data fetched after the latest
\* refresh() ("fresh"), or data fetched before it ("stale")
NoTree == [cache |-> [e \in TreeCaches |-> "null"], calls |-> [c \in TreeCalls |-> NoCall]]

\* ConfluenceTreeProvider.refresh(): the caches are emptied; the calls under
\* way are from before it
refresh(t) ==
    [t EXCEPT !.cache = [e \in TreeCaches |-> "null"],
              !.calls = [c \in TreeCalls |->
                            IF t.calls[c].pc = "idle" THEN t.calls[c]
                            ELSE [t.calls[c] EXCEPT !.before = TRUE]]]

RelatedKeys == {"REL-1", "REL-2", "REL-3", "REL-4"}

\* no getRelatedIssues call has been made.  A call: maxDepth, visited and
\* allIssues (by key) as in the code, the gather calls on the stack (key,
\* depth, next: the place in the issue's sub-tasks and links it has come to),
\* the keys getIssue was called with, the sub-tasks and links each fetched
\* issue came with, and whether a fetch failed
NoRelated == [pc |-> "none", maxDepth |-> 0, visited |-> {}, allIssues |-> <<>>,
              stack |-> <<>>, fetches |-> <<>>,
              links |-> [k \in RelatedKeys |-> <<>>], failed |-> FALSE]

\* no request is under way.  A request: the API it goes to, the status and the
\* body (in chunks) the remote answers with, how far the exchange is (phase),
\* and the text read so far
NoReply == [api |-> "", status |-> 0, body |-> <<>>, phase |-> "none", data |-> <<>>]

VARIABLES
    configured,     \* the helpers were constructed (configuration is valid)
    remoteVersion,  \* version number of page 42 on the remote
    editor,         \* vscode.window.activeTextEditor: file name and text
    ops,            \* the invocations of the tools and save commands
    ptext,          \* a text handed to a converter
    pop,            \* the converter applied to it
    presult,        \* what the converter returned
    entity,         \* the remote entity (or template context) handed to a serializer
    reply,          \* the HTTP response the request executor is reading
    panel,          \* the Jira preview: the provider's statics, the panels, the calls
    tree,           \* the Confluence tree: a cache, the remote's data, the fetches
    related         \* one getRelatedIssues call: the links, the traversal, the result

vars == <<configured, remoteVersion, editor, ops, ptext, pop, presult, entity, reply,
          panel, tree, related>>

\* the variables of the save flows, the converters and the request executor
core == <<configured, remoteVersion, editor, ops, ptext, pop, presult, entity, reply>>

\* an invocation: the handler's position, what it parsed (id, provided: the
\* version given to it, for an issue its id; container: space or project key),
\* the calls it made (updates, creates; sent: the version number of each page
\* update with the count of getPage answers seen before it; answers: the error
\* message of each update's answer, empty for success; fetched: the version
\* each getPage gave; created: the identifier the create call answered with)
\* (deletes: the delete calls made; confirm: the button the dialog came back
\* with; sent.version: the version argument of each updatePage call)
\* and what it returned (returned: the entity handed back, "response" for the
\* answer of the update call, "refetched" for the answer of a get made after
\* the call; reopened: the identifier the document was opened again under)
Idle == [kind |-> "none", pc |-> "idle", doc |-> "", parsed |-> FALSE, id |-> Undef,
         provided |-> Undef, container |-> Undef,
         updates |-> 0, creates |-> 0, sent |-> <<>>, answers |-> <<>>,
         fetched |-> <<>>, result |-> "none", msg |-> <<>>, retVersion |-> 0,
         created |-> Undef, reopened |-> Undef, returned |-> "none",
         deletes |-> 0, confirm |-> Undef]

Set(s, rec) == ops' = [ops EXCEPT ![s] = rec]

Finish(o, result, msg) == [o EXCEPT !.pc = "done", !.result = result, !.msg = msg]

\* helper.updatePage(pageId, title, content, version) leaves the handler
IssueUpdate(o, pc, version) ==
    [o EXCEPT !.pc = pc, !.updates = @ + 1,
              !.sent = Append(@, [number |-> updatePageVersion(version),
                                  after |-> Len(o.fetched),
                                  version |-> version])]

Init ==
    /\ configured \in BOOLEAN
    /\ remoteVersion \in 1 .. MaxVersion
    /\ editor \in Editors
    /\ ops = [s \in Slots |-> Idle]
    /\ ptext = <<>>
    /\ pop = "none"
    /\ presult = PageThrown
    /\ entity = NoEntity
    /\ reply = NoReply
    /\ panel = NoPanel
    /\ tree = NoTree
    /\ related = NoRelated

\* the user opens or edits a document; it becomes the active editor
OpenEditor ==
    /\ \E e \in Editors : e # editor /\ editor' = e
    /\ UNCHANGED <<configured, remoteVersion, ops, ptext, pop, presult, entity, reply, panel, tree, related>>

\* somebody else publishes a new version of the page
RemoteEdit ==
    /\ remoteVersion < MaxVersion
    /\ remoteVersion' = remoteVersion + 1
    /\ UNCHANGED <<configured, editor, ops, ptext, pop, presult, entity, reply, panel, tree, related>>

(***************************************************************************)
(* updateConfluencePage tool                                               *)
(***************************************************************************)
ToolContext == <<"Failed to update Confluence page ", "42">>

RetryContext == <<"Failed to update Confluence page ", "42", " after retry">>

\* createSuccessResult's message after the first update
UpdatedMessage(title) == <<"Page updated: ", title>>

RetriedMessage_m(title) == <<"Page updated: ", title>>

\* createSuccessResult's message after the retried update
RetriedMessage(title) == <<"Page updated: ", title, " (auto-resolved version conflict)">>

ToolCatch_m(o, err) == [o EXCEPT !.pc = "fetch2"]

\* the outer catch: a version conflict starts the retry with a fresh getPage
ToolCatch(o, err) ==
    IF MessageIncludes(err, ConflictSignature)
    THEN [o EXCEPT !.pc = "fetch2"]
    ELSE Finish(o, "failed", handleToolError(err, ToolContext))

RetryCatch_m(o, err) ==
    IF MessageIncludes(err, ConflictSignature)
    THEN [o EXCEPT !.pc = "fetch2"]
    ELSE Finish(o, "failed", handleToolError(err, RetryContext))

\* the inner catch: whatever fails in the retry ends the invocation
RetryCatch(o, err) == Finish(o, "failed", handleToolError(err, RetryContext))

ToolInvoke(s) ==
    /\ ops[s].pc = "idle"
    /\ \E provided \in {Undef} \cup {Num(k) : k \in 0 .. MaxVersion} :
         LET o == [ops[s] EXCEPT !.kind = "pageTool", !.id = Str("42"),
                                 !.parsed = TRUE, !.provided = provided]
         IN  IF ~configured
             THEN Set(s, Finish(o, "failed",
                                handleToolError(<<"Confluence is not configured">>, <<>>)))
             ELSE IF ~Truthy(provided)
             THEN Set(s, [o EXCEPT !.pc = "fetch1"])
             ELSE Set(s, IssueUpdate(o, "update1", provided.n))
    /\ UNCHANGED <<configured, remoteVersion, editor, ptext, pop, presult, entity, reply, panel, tree, related>>

\* getPage answers; the version is read and the first update is sent
ToolFetched(s) ==
    /\ ops[s].kind = "pageTool" /\ ops[s].pc = "fetch1"
    /\ \E r \in GetPageOutcomes(remoteVersion) :
         LET o == [ops[s] EXCEPT !.fetched = Append(@, r.version)]
         IN  IF ~r.ok
             THEN Set(s, ToolCatch(o, r.msg))
             ELSE IF ~Truthy(r.version)
             THEN Set(s, ToolCatch(o, <<"Could not determine page version">>))
             ELSE Set(s, IssueUpdate(o, "update1", r.version.n))
    /\ UNCHANGED <<configured, remoteVersion, editor, ptext, pop, presult, entity, reply, panel, tree, related>>

\* the remote answers the first update
ToolUpdated(s) ==
    /\ ops[s].kind = "pageTool" /\ ops[s].pc = "update1"
    /\ \E r \in PutPageOutcomes(ops[s].sent[1].number, remoteVersion) :
         LET o == [ops[s] EXCEPT !.answers = Append(@, r.msg)]
         IN  IF r.ok
             THEN /\ Set(s, [Finish(o, "success", UpdatedMessage("Spec"))
                                EXCEPT !.retVersion = r.version,
                                       !.returned = "response"])
                  /\ remoteVersion' = r.version
             ELSE /\ Set(s, ToolCatch(o, r.msg))
                  /\ UNCHANGED remoteVersion
    /\ UNCHANGED <<configured, editor, ptext, pop, presult, entity, reply, panel, tree, related>>

\* the retry sent with the version the first update started from
ToolRefetched_m(s) ==
    /\ ops[s].kind = "pageTool" /\ ops[s].pc = "fetch2"
    /\ \E r \in GetPageOutcomes(remoteVersion) :
         LET o == [ops[s] EXCEPT !.fetched = Append(@, r.version)]
         IN  IF ~r.ok
             THEN Set(s, RetryCatch(o, r.msg))
             ELSE IF ~Truthy(r.version)
             THEN Set(s, RetryCatch(o, <<"Could not determine current page version">>))
             ELSE Set(s, IssueUpdate(o, "update2", o.sent[1].number - 1))
    /\ UNCHANGED <<configured, remoteVersion, editor, ptext, pop, presult, entity, reply, panel, tree, related>>

\* the retry's getPage answers; the second update is sent
ToolRefetched(s) ==
    /\ ops[s].kind = "pageTool" /\ ops[s].pc = "fetch2"
    /\ \E r \in GetPageOutcomes(remoteVersion) :
         LET o == [ops[s] EXCEPT !.fetched = Append(@, r.version)]
         IN  IF ~r.ok
             THEN Set(s, RetryCatch(o, r.msg))
             ELSE IF ~Truthy(r.version)
             THEN Set(s, RetryCatch(o, <<"Could not determine current page version">>))
             ELSE Set(s, IssueUpdate(o, "update2", r.version.n))
    /\ UNCHANGED <<configured, remoteVersion, editor, ptext, pop, presult, entity, reply, panel, tree, related>>

\* the remote answers the retried update
ToolRetried(s) ==
    /\ ops[s].kind = "pageTool" /\ ops[s].pc = "update2"
    /\ \E r \in PutPageOutcomes(ops[s].sent[Len(ops[s].sent)].number, remoteVersion) :
         LET o == [ops[s] EXCEPT !.answers = Append(@, r.msg)]
         IN  IF r.ok
             THEN /\ Set(s, [Finish(o, "success", RetriedMessage("Spec"))
                                EXCEPT !.retVersion = r.version,
                                       !.returned = "response"])
                  /\ remoteVersion' = r.version
             ELSE /\ Set(s, RetryCatch(o, r.msg))
                  /\ UNCHANGED remoteVersion
    /\ UNCHANGED <<configured, editor, ptext, pop, presult, entity, reply, panel, tree, related>>

(***************************************************************************)
(* confluence.saveToConfluence command                                     *)
(***************************************************************************)
SaveFailure(err) == <<"Failed to save to Confluence: ">> \o err

IsNewPage_m(pageData) == pageData.id = Str("NEW")

\* pageData.id === 'new'
IsNewPage(pageData) == pageData.id = Str("new")

SaveToConfluence(s) ==
    /\ ops[s].pc = "idle"
    /\ LET o        == [ops[s] EXCEPT !.kind = "pageSave", !.doc = editor.file]
           pageData == yamlToPage(editor.text)
           extracted == extractPageContent(editor.text)
           p        == [o EXCEPT !.parsed = TRUE, !.id = pageData.id,
                                 !.provided = pageData.version,
                                 !.container = pageData.spaceKey]
       IN  IF ~configured
           THEN Set(s, Finish(o, "rejected", <<"Confluence is not configured">>))
           ELSE IF editor.file # PageFile
           THEN Set(s, Finish(o, "rejected", <<"Please open a Confluence YAML file first">>))
           ELSE IF pageData.threw \/ extracted.threw
           THEN Set(s, Finish(o, "failed", SaveFailure(<<"YAMLException or TypeError">>)))
           ELSE IF IsNewPage(pageData)
           THEN IF ~Truthy(pageData.spaceKey)
                THEN Set(s, Finish(p, "failed", <<"Space key is required to create a page">>))
                ELSE Set(s, [p EXCEPT !.pc = "create", !.creates = @ + 1])
           ELSE IF Truthy(pageData.id)
           THEN Set(s, IssueUpdate(p, "update1", extracted.version.n))
           ELSE Set(s, Finish(p, "nothing", <<>>))
    /\ UNCHANGED <<configured, remoteVersion, editor, ptext, pop, presult, entity, reply, panel, tree, related>>

\* the identifier the remote gives a created page, and a created issue
NewPageId == Str("77")

NewIssueKey == Str("PROJ-7")

\* the document opened again under the identifier it was saved with
SaveCreated_m(s) ==
    /\ ops[s].kind = "pageSave" /\ ops[s].pc = "create"
    /\ \E r \in PlainOutcomes("Confluence") :
         IF r.ok
         THEN Set(s, [Finish(ops[s], "success", <<"Created page: ", "Spec">>)
                         EXCEPT !.created = NewPageId, !.reopened = ops[s].id])
         ELSE Set(s, Finish(ops[s], "failed", SaveFailure(r.msg)))
    /\ UNCHANGED <<configured, remoteVersion, editor, ptext, pop, presult, entity, reply, panel, tree, related>>

\* createPage answers; the new page is reopened under its own id
SaveCreated(s) ==
    /\ ops[s].kind = "pageSave" /\ ops[s].pc = "create"
    /\ \E r \in PlainOutcomes("Confluence") :
         IF r.ok
         THEN Set(s, [Finish(ops[s], "success", <<"Created page: ", "Spec">>)
                         EXCEPT !.created = NewPageId, !.reopened = NewPageId])
         ELSE Set(s, Finish(ops[s], "failed", SaveFailure(r.msg)))
    /\ UNCHANGED <<configured, remoteVersion, editor, ptext, pop, presult, entity, reply, panel, tree, related>>

\* updatePage answers
SaveUpdated(s) ==
    /\ ops[s].kind = "pageSave" /\ ops[s].pc = "update1"
    /\ \E r \in PutPageOutcomes(ops[s].sent[1].number, remoteVersion) :
         LET o == [ops[s] EXCEPT !.answers = Append(@, r.msg)]
         IN  IF r.ok
             THEN /\ Set(s, [Finish(o, "success", <<"Updated page: ", "Spec">>)
                                EXCEPT !.retVersion = r.version])
                  /\ remoteVersion' = r.version
             ELSE /\ Set(s, Finish(o, "failed", SaveFailure(r.msg)))
                  /\ UNCHANGED remoteVersion
    /\ UNCHANGED <<configured, editor, ptext, pop, presult, entity, reply, panel, tree, related>>

(***************************************************************************)
(* jira.saveToJira command                                                 *)
(***************************************************************************)
JiraFailure(err) == <<"Failed to save to Jira: ">> \o err

\* issueData.id === 'new' || issueData.key === 'NEW'
IsNewIssue(issueData) == issueData.id = Str("new") \/ issueData.key = Str("NEW")

SaveToJira(s) ==
    /\ ops[s].pc = "idle"
    /\ LET o         == [ops[s] EXCEPT !.kind = "issueSave", !.doc = editor.file]
           issueData == yamlToIssue(editor.text)
           yamlData  == extractIssueFields(editor.text)
           p         == [o EXCEPT !.parsed = TRUE, !.id = issueData.key,
                                  !.provided = issueData.id,
                                  !.container = yamlData.projectKey]
       IN  IF ~configured
           THEN Set(s, Finish(o, "rejected", <<"Jira is not configured">>))
           ELSE IF editor.file # IssueFile
           THEN Set(s, Finish(o, "rejected", <<"Please open a Jira YAML file first">>))
           ELSE IF issueData.threw
           THEN Set(s, Finish(o, "failed", JiraFailure(<<"YAMLException or TypeError">>)))
           ELSE IF IsNewIssue(issueData)
           THEN IF Truthy(yamlData.projectKey)
                THEN Set(s, [p EXCEPT !.pc = "create", !.creates = @ + 1])
                ELSE Set(s, [p EXCEPT !.pc = "prompt"])
           ELSE IF Truthy(issueData.key)
           THEN Set(s, [p EXCEPT !.pc = "update1", !.updates = @ + 1])
           ELSE Set(s, Finish(p, "nothing", <<>>))
    /\ UNCHANGED <<configured, remoteVersion, editor, ptext, pop, presult, entity, reply, panel, tree, related>>

\* the input box for the project key is answered or dismissed
JiraPrompted(s) ==
    /\ ops[s].kind = "issueSave" /\ ops[s].pc = "prompt"
    /\ \E projectKey \in {Undef, Str("PROJ")} :
         IF ~Truthy(projectKey)
         THEN Set(s, Finish(ops[s], "nothing", <<>>))
         ELSE Set(s, [ops[s] EXCEPT !.pc = "create", !.creates = @ + 1,
                                    !.container = projectKey])
    /\ UNCHANGED <<configured, remoteVersion, editor, ptext, pop, presult, entity, reply, panel, tree, related>>

\* createIssue: the POST answers and the created issue is fetched
JiraCreated(s) ==
    /\ ops[s].kind = "issueSave" /\ ops[s].pc = "create"
    /\ \E r \in PlainOutcomes("JIRA") :
         IF r.ok
         THEN Set(s, [ops[s] EXCEPT !.pc = "created", !.created = NewIssueKey])
         ELSE Set(s, Finish(ops[s], "failed", JiraFailure(r.msg)))
    /\ UNCHANGED <<configured, remoteVersion, editor, ptext, pop, presult, entity, reply, panel, tree, related>>

\* createIssue: getIssue answers; the new issue is reopened under its key
JiraCreatedFetched(s) ==
    /\ ops[s].kind = "issueSave" /\ ops[s].pc = "created"
    /\ \E r \in PlainOutcomes("JIRA") :
         IF r.ok
         THEN Set(s, [Finish(ops[s], "success", <<"Created issue: ", ops[s].created.s>>)
                         EXCEPT !.reopened = ops[s].created,
                                !.returned = "refetched"])
         ELSE Set(s, Finish(ops[s], "failed", JiraFailure(r.msg)))
    /\ UNCHANGED <<configured, remoteVersion, editor, ptext, pop, presult, entity, reply, panel, tree, related>>

\* updateIssue answers
JiraUpdated(s) ==
    /\ ops[s].kind = "issueSave" /\ ops[s].pc = "update1"
    /\ \E r \in PlainOutcomes("JIRA") :
         LET o == [ops[s] EXCEPT !.answers = Append(@, r.msg)]
         IN  IF r.ok
             THEN Set(s, Finish(o, "success", <<"Updated issue: ", "PROJ-1">>))
             ELSE Set(s, Finish(o, "failed", JiraFailure(r.msg)))
    /\ UNCHANGED <<configured, remoteVersion, editor, ptext, pop, presult, entity, reply, panel, tree, related>>

(***************************************************************************)
(* updateJiraIssue tool                                                    *)
(***************************************************************************)
JiraToolContext == <<"Failed to update Jira issue ", "PROJ-1">>

\* the update sent without looking at the helper
JiraToolInvoke_m(s) ==
    /\ ops[s].pc = "idle"
    /\ LET o == [ops[s] EXCEPT !.kind = "issueTool", !.id = Str("PROJ-1"),
                               !.parsed = TRUE]
       IN  Set(s, [o EXCEPT !.pc = "update1", !.updates = @ + 1])
    /\ UNCHANGED <<configured, remoteVersion, editor, ptext, pop, presult, entity, reply, panel, tree, related>>

JiraToolInvoke(s) ==
    /\ ops[s].pc = "idle"
    /\ LET o == [ops[s] EXCEPT !.kind = "issueTool", !.id = Str("PROJ-1"),
                               !.parsed = TRUE]
       IN  IF ~configured
           THEN Set(s, Finish(o, "failed", handleToolError(<<"Jira is not configured">>, <<>>)))
           ELSE Set(s, [o EXCEPT !.pc = "update1", !.updates = @ + 1])
    /\ UNCHANGED <<configured, remoteVersion, editor, ptext, pop, presult, entity, reply, panel, tree, related>>

\* the update sent again when the answer carries the conflict signature
JiraToolUpdated_m(s) ==
    /\ ops[s].kind = "issueTool" /\ ops[s].pc = "update1"
    /\ \E r \in PlainOutcomes("JIRA") :
         LET o == [ops[s] EXCEPT !.answers = Append(@, r.msg)]
         IN  IF r.ok
             THEN Set(s, Finish(o, "success", <<"Updated issue ", "PROJ-1">>))
             ELSE IF MessageIncludes(r.msg, ConflictSignature)
             THEN Set(s, [o EXCEPT !.updates = @ + 1])
             ELSE Set(s, Finish(o, "failed",
                                handleToolError(r.msg, JiraToolContext)))
    /\ UNCHANGED <<configured, remoteVersion, editor, ptext, pop, presult, entity, reply, panel, tree, related>>

\* updateIssue answers
JiraToolUpdated(s) ==
    /\ ops[s].kind = "issueTool" /\ ops[s].pc = "update1"
    /\ \E r \in PlainOutcomes("JIRA") :
         LET o == [ops[s] EXCEPT !.answers = Append(@, r.msg)]
         IN  IF r.ok
             THEN Set(s, Finish(o, "success", <<"Updated issue ", "PROJ-1">>))
             ELSE Set(s, Finish(o, "failed",
                                handleToolError(r.msg, JiraToolContext)))
    /\ UNCHANGED <<configured, remoteVersion, editor, ptext, pop, presult, entity, reply, panel, tree, related>>

(***************************************************************************)
(* confluence.openPageYaml and confluence.deletePage commands              *)
(***************************************************************************)
OpenPage(s) ==
    /\ ops[s].pc = "idle"
    /\ \E pageId \in {Undef, Str("42")} :
         LET o == [ops[s] EXCEPT !.kind = "pageOpen", !.id = pageId]
         IN  IF ~configured
             THEN Set(s, Finish(o, "rejected", <<"Confluence is not configured">>))
             ELSE IF ~Truthy(pageId)
             THEN Set(s, Finish(o, "rejected", <<"No page ID provided">>))
             ELSE Set(s, [o EXCEPT !.pc = "open"])
    /\ UNCHANGED <<configured, remoteVersion, editor, ptext, pop, presult, entity, reply,
                   panel, tree, related>>

\* getPage answers; the document is written and shown.  An answer with an
\* empty body resolves to {}, whose absent properties yaml.dump refuses
OpenPageFetched(s) ==
    /\ ops[s].kind = "pageOpen" /\ ops[s].pc = "open"
    /\ \E r \in GetPageOutcomes(remoteVersion) :
         LET o == [ops[s] EXCEPT !.fetched = Append(@, r.version)]
             page == [kind |-> "page", id |-> Str("42"), title |-> Str("Spec"),
                      type |-> Str("page"), status |-> Str("current"),
                      spaceKey |-> Str("DOCS"), spaceName |-> Str("Documentation"),
                      version |-> r.version,
                      storage |-> <<TextLine("<p>hello</p>")>>, view |-> <<>>]
         IN  IF ~r.ok
             THEN Set(s, Finish(o, "failed", <<"Failed to load page ", "42", ": ">> \o r.msg)) /\ UNCHANGED editor
             ELSE IF r.version = Undef
             THEN /\ Set(s, Finish(o, "failed", <<"Failed to load page ", "42", ": ", "YAMLException">>))
                  /\ UNCHANGED editor
             ELSE /\ Set(s, Finish([o EXCEPT !.doc = PageFile], "success", <<>>))
                  /\ editor' = [file |-> PageFile, text |-> pageToYaml(page)]
    /\ UNCHANGED <<configured, remoteVersion, ptext, pop, presult, entity, reply,
                   panel, tree, related>>

DeletePage(s) ==
    /\ ops[s].pc = "idle"
    /\ \E pageId \in {Undef, Str("43")} :
         LET o == [ops[s] EXCEPT !.kind = "pageDelete", !.id = pageId]
         IN  IF ~configured
             THEN Set(s, Finish(o, "rejected", <<"Confluence is not configured">>))
             ELSE IF ~Truthy(pageId)
             THEN Set(s, Finish(o, "rejected", <<"No page ID provided">>))
             ELSE Set(s, [o EXCEPT !.pc = "confirm"])
    /\ UNCHANGED <<configured, remoteVersion, editor, ptext, pop, presult, entity, reply,
                   panel, tree, related>>

\* the page deleted whatever the dialog came back with
DeleteConfirmed_m(s) ==
    /\ ops[s].kind = "pageDelete" /\ ops[s].pc = "confirm"
    /\ \E confirm \in {Str("Delete"), Undef} :
         Set(s, [ops[s] EXCEPT !.confirm = confirm, !.pc = "delete", !.deletes = @ + 1])
    /\ UNCHANGED <<configured, remoteVersion, editor, ptext, pop, presult, entity, reply,
                   panel, tree, related>>

\* showWarningMessage comes back with 'Delete', or with nothing when the
\* dialog is cancelled or dismissed; if (confirm !== 'Delete') return
DeleteConfirmed(s) ==
    /\ ops[s].kind = "pageDelete" /\ ops[s].pc = "confirm"
    /\ \E confirm \in {Str("Delete"), Undef} :
         LET o == [ops[s] EXCEPT !.confirm = confirm]
         IN  IF confirm # Str("Delete")
             THEN Set(s, Finish(o, "nothing", <<>>))
             ELSE Set(s, [o EXCEPT !.pc = "delete", !.deletes = @ + 1])
    /\ UNCHANGED <<configured, remoteVersion, editor, ptext, pop, presult, entity, reply,
                   panel, tree, related>>

\* helper.deletePage answers; the tree is refreshed after a deletion
DeleteAnswered(s) ==
    /\ ops[s].kind = "pageDelete" /\ ops[s].pc = "delete"
    /\ \E r \in PlainOutcomes("Confluence") :
         LET o == ops[s]
         IN  IF r.ok
             THEN Set(s, Finish(o, "success", <<"Page deleted">>)) /\ tree' = refresh(tree)
             ELSE /\ Set(s, Finish(o, "failed", <<"Failed to delete page: ">> \o r.msg))
                  /\ UNCHANGED tree
    /\ UNCHANGED <<configured, remoteVersion, editor, ptext, pop, presult, entity, reply,
                   panel, related>>

(***************************************************************************)
(* The converters applied to a text                                        *)
(***************************************************************************)
LineAlphabet == {MarkerLine, BlankLine, BadLine, Kv("id", Str("42")),
                 Kv("key", Str("PROJ-1")), Kv("version", Num(3)),
                 TextLine("<p>hello</p>"), TextLine("null")}

Texts == UNION {[1 .. n -> LineAlphabet] : n \in 0 .. MaxLines}

InitParse ==
    /\ configured = TRUE
    /\ remoteVersion = 1
    /\ editor = [file |-> "", text |-> <<>>]
    /\ ops = [s \in Slots |-> Idle]
    /\ ptext \in Texts
    /\ pop = "none"
    /\ presult = PageThrown
    /\ entity = NoEntity
    /\ reply = NoReply
    /\ panel = NoPanel
    /\ tree = NoTree
    /\ related = NoRelated

Apply(name, result) ==
    /\ pop = "none"
    /\ pop' = name
    /\ presult' = result
    /\ UNCHANGED <<configured, remoteVersion, editor, ops, ptext, entity, reply, panel, tree, related>>

ParsePage == Apply("yamlToPage", yamlToPage(ptext))

ExtractPage == Apply("extractPageContent", extractPageContent(ptext))

ParseIssue == Apply("yamlToIssue", yamlToIssue(ptext))

ExtractIssue == Apply("extractIssueFields", extractIssueFields(ptext))

NextParse == ParsePage \/ ExtractPage \/ ParseIssue \/ ExtractIssue

SpecParse == InitParse /\ [][NextParse]_vars

(***************************************************************************)
(* A remote entity opened as a text document, and the document read back   *)
(***************************************************************************)
Titles == {Str(""), Str("Spec"), Str(" Spec ")}

\* bodies: markup lines, blank lines and lines that read '---'
Bodies == UNION {[1 .. n -> {TextLine("<p>hello</p>"), BlankLine, MarkerLine}] :
                 n \in 0 .. MaxLines}

\* what getPage(pageId, 'body.storage,space,version') resolves with
Pages ==
    {[kind |-> "page", id |-> Str("42"), title |-> t, type |-> Str("page"),
      status |-> Str("current"), spaceKey |-> sk,
      spaceName |-> IF sk = Undef THEN Undef ELSE Str("Documentation"),
      version |-> Num(v), storage |-> b, view |-> w] :
        t \in Titles, sk \in {Undef, Str("DOCS")}, v \in 1 .. MaxVersion,
        b \in Bodies, w \in {<<>>, <<TextLine("<p>view</p>")>>}}

\* what getIssue resolves with
Issues ==
    {[kind |-> "issue", key |-> Str("PROJ-1"), id |-> Str("10001"), summary |-> sm,
      description |-> d, status |-> Str("Open"),
      assigneeName |-> IF a = Undef THEN Undef ELSE Str("Ada"), assigneeEmail |-> a,
      reporterName |-> Str("Bob"), reporterEmail |-> Str("bob@example.com"),
      priority |-> pr, issuetype |-> Str("Task"),
      created |-> Str("2024-01-01"), updated |-> Str("2024-01-02"), custom |-> c] :
        sm \in {Str(""), Str("Fix login")}, d \in {Undef, Str("Details")},
        a \in {Undef, Str("ada@example.com")}, pr \in {Undef, Str("High")},
        c \in {<<>>, <<"customfield_10020", "customfield_10001">>}}

\* the space a new page is written for, with or without a parent page
PageContexts ==
    {[kind |-> "pageContext", spaceKey |-> Str(sk), parentId |-> pid] :
        sk \in {"DOCS", "DEV"}, pid \in {Undef, Str("7")}}

\* the project a new issue is written for
IssueContexts ==
    {[kind |-> "issueContext", projectKey |-> Str(pk)] : pk \in {"PROJ", "OPS"}}

Serializers == {"pageToYaml", "newPageToYaml", "issueToYaml", "newIssueToYaml"}

InitSerialize ==
    /\ configured = TRUE
    /\ remoteVersion = 1
    /\ editor = [file |-> "", text |-> <<>>]
    /\ ops = [s \in Slots |-> Idle]
    /\ ptext = <<>>
    /\ pop = "none"
    /\ presult = PageThrown
    /\ entity \in Pages \cup Issues \cup PageContexts \cup IssueContexts
    /\ reply = NoReply
    /\ panel = NoPanel
    /\ tree = NoTree
    /\ related = NoRelated

\* a serializer writes the document
Written(name, text) ==
    /\ pop = "none"
    /\ pop' = name
    /\ ptext' = text
    /\ UNCHANGED <<configured, remoteVersion, editor, ops, presult, entity, reply, panel, tree, related>>

\* confluence.openPageYaml
OpenPageYaml == entity.kind = "page" /\ Written("pageToYaml", pageToYaml(entity))

\* confluence.createPageYaml
CreatePageYaml ==
    /\ entity.kind = "pageContext"
    /\ Written("newPageToYaml", newPageToYaml(entity.spaceKey, entity.parentId))

\* jira.openIssueYaml
OpenIssueYaml == entity.kind = "issue" /\ Written("issueToYaml", issueToYaml(entity))

\* jira.createIssueYaml
CreateIssueYaml ==
    /\ entity.kind = "issueContext"
    /\ Written("newIssueToYaml", newIssueToYaml(entity.projectKey))

\* a converter reads the document a serializer wrote
ReadBack(from, name, result) ==
    /\ pop \in from
    /\ pop' = name
    /\ presult' = result
    /\ UNCHANGED <<configured, remoteVersion, editor, ops, ptext, entity, reply, panel, tree, related>>

PageSerializers == {"pageToYaml", "newPageToYaml"}

IssueSerializers == {"issueToYaml", "newIssueToYaml"}

ReadPage == ReadBack(PageSerializers, "yamlToPage", yamlToPage(ptext))

ReadPageContent ==
    ReadBack(PageSerializers, "extractPageContent", extractPageContent(ptext))

ReadIssue == ReadBack(IssueSerializers, "yamlToIssue", yamlToIssue(ptext))

ReadIssueFields ==
    ReadBack(IssueSerializers, "extractIssueFields", extractIssueFields(ptext))

\* the serializer that wrote the document of this entity
Serialize(e) ==
    CASE e.kind = "page" -> pageToYaml(e)
      [] e.kind = "pageContext" -> newPageToYaml(e.spaceKey, e.parentId)
      [] e.kind = "issue" -> issueToYaml(e)
      [] e.kind = "issueContext" -> newIssueToYaml(e.projectKey)

\* the unchanged entity is opened a second time
OpenAgain ==
    ReadBack(Serializers, "again", [threw |-> FALSE, text |-> Serialize(entity)])

NextSerialize ==
    \/ OpenPageYaml
    \/ CreatePageYaml
    \/ OpenIssueYaml
    \/ CreateIssueYaml
    \/ ReadPage
    \/ ReadPageContent
    \/ ReadIssue
    \/ ReadIssueFields
    \/ OpenAgain

SpecSerialize == InitSerialize /\ [][NextSerialize]_vars

(***************************************************************************)
(* The request executor reading one response                               *)
(***************************************************************************)
Statuses == {199, 200, 201, 204, 299, 300, 400, 404, 409, 500}

ResponseBodies ==
    ValidJson \cup {<<>>, <<"<html>Bad Gateway</html>">>,
                    <<"{\"id\":">>, <<"Version must be ", "incremented">>}

InitRequest ==
    /\ configured = TRUE
    /\ remoteVersion = 1
    /\ editor = [file |-> "", text |-> <<>>]
    /\ ops = [s \in Slots |-> Idle]
    /\ ptext = <<>>
    /\ pop = "none"
    /\ presult = PageThrown
    /\ entity = NoEntity
    /\ reply \in {[api |-> a, status |-> st, body |-> b, phase |-> "sent", data |-> <<>>] :
                     a \in {"Confluence", "JIRA"}, st \in Statuses, b \in ResponseBodies}
    /\ panel = NoPanel
    /\ tree = NoTree
    /\ related = NoRelated

\* the response callback: the status line and the headers have arrived
OnResponse ==
    /\ reply.phase = "sent"
    /\ reply' = [reply EXCEPT !.phase = "receiving"]
    /\ UNCHANGED <<configured, remoteVersion, editor, ops, ptext, pop, presult, entity, panel, tree, related>>

\* res.on('data'): data += chunk
OnData ==
    /\ reply.phase = "receiving"
    /\ Len(reply.data) < Len(reply.body)
    /\ reply' = [reply EXCEPT !.data = Append(@, reply.body[Len(reply.data) + 1])]
    /\ UNCHANGED <<configured, remoteVersion, editor, ops, ptext, pop, presult, entity, panel, tree, related>>

\* the error made from the status line alone
OnEnd_m ==
    /\ reply.phase = "receiving"
    /\ Len(reply.data) = Len(reply.body)
    /\ reply' = [reply EXCEPT !.phase = "settled"]
    /\ pop' = "request"
    /\ presult' = requestEnd(reply.api, reply.status, <<>>)
    /\ UNCHANGED <<configured, remoteVersion, editor, ops, ptext, entity, panel, tree, related>>

\* res.on('end'): the promise is settled
OnEnd ==
    /\ reply.phase = "receiving"
    /\ Len(reply.data) = Len(reply.body)
    /\ reply' = [reply EXCEPT !.phase = "settled"]
    /\ pop' = "request"
    /\ presult' = requestEnd(reply.api, reply.status, reply.data)
    /\ UNCHANGED <<configured, remoteVersion, editor, ops, ptext, entity, panel, tree, related>>

\* req.on('error'): the connection failed before a response arrived
OnError ==
    /\ reply.phase = "sent"
    /\ reply' = [reply EXCEPT !.phase = "failed"]
    /\ pop' = "request"
    /\ presult' = [settled |-> "rejected", value |-> SocketError]
    /\ UNCHANGED <<configured, remoteVersion, editor, ops, ptext, entity, panel, tree, related>>

\* the connection is closed while the body is being read: neither 'end' nor
\* the request's 'error' is emitted, and the promise stays pending
OnAborted ==
    /\ reply.phase = "receiving"
    /\ Len(reply.data) < Len(reply.body)
    /\ reply' = [reply EXCEPT !.phase = "aborted"]
    /\ UNCHANGED <<configured, remoteVersion, editor, ops, ptext, pop, presult, entity, panel, tree, related>>

NextRequest == OnResponse \/ OnData \/ OnEnd \/ OnError \/ OnAborted

SpecRequest == InitRequest /\ [][NextRequest]_vars

\* the handler has returned and its result has been shown; the run is followed
\* while the page's version stays within the bound
Dismiss(s) ==
    /\ ops[s].pc = "done"
    /\ remoteVersion <= MaxVersion
    /\ Set(s, Idle)
    /\ UNCHANGED <<configured, remoteVersion, editor, ptext, pop, presult, entity, reply, panel, tree, related>>

(***************************************************************************)
(* One invocation at a time; what other writers do to the page is          *)
(* RemoteEdit                                                              *)
(***************************************************************************)
Next ==
    \/ OpenEditor
    \/ RemoteEdit
    \/ ToolInvoke("first")
    \/ ToolFetched("first")
    \/ ToolUpdated("first")
    \/ ToolRefetched("first")
    \/ ToolRetried("first")
    \/ SaveToConfluence("first")
    \/ SaveCreated("first")
    \/ SaveUpdated("first")
    \/ SaveToJira("first")
    \/ JiraPrompted("first")
    \/ JiraCreated("first")
    \/ JiraCreatedFetched("first")
    \/ JiraUpdated("first")
    \/ JiraToolInvoke("first")
    \/ JiraToolUpdated("first")
    \/ OpenPage("first")
    \/ OpenPageFetched("first")
    \/ DeletePage("first")
    \/ DeleteConfirmed("first")
    \/ DeleteAnswered("first")
    \/ Dismiss("first")

Spec == Init /\ [][Next]_vars

(***************************************************************************)
(* The save commands invoked while an earlier invocation is still awaiting *)
(***************************************************************************)
NextOverlap ==
    \/ OpenEditor
    \/ \E s \in Slots : SaveToConfluence(s)
    \/ \E s \in Slots : SaveCreated(s)
    \/ \E s \in Slots : SaveUpdated(s)
    \/ \E s \in Slots : SaveToJira(s)
    \/ \E s \in Slots : JiraPrompted(s)
    \/ \E s \in Slots : JiraCreated(s)
    \/ \E s \in Slots : JiraCreatedFetched(s)
    \/ \E s \in Slots : JiraUpdated(s)

SpecOverlap == Init /\ [][NextOverlap]_vars

(***************************************************************************)
(* The Jira preview: showIssue calls, the panel's messages, disposal       *)
(***************************************************************************)
MaxPanels == 2

InitPanel ==
    /\ configured = TRUE
    /\ remoteVersion = 1
    /\ editor = [file |-> "", text |-> <<>>]
    /\ ops = [s \in Slots |-> Idle]
    /\ ptext = <<>>
    /\ pop = "none"
    /\ presult = PageThrown
    /\ entity = NoEntity
    /\ reply = NoReply
    /\ panel = NoPanel
    /\ tree = NoTree
    /\ related = NoRelated

\* showIssue(issueKey, yamlUri?) up to its first await
showIssue(p, c, issueKey, yamlUri) ==
    [p EXCEPT !.currentIssueKey = issueKey,
              !.currentYamlUri = IF yamlUri # "" THEN yamlUri ELSE @,
              !.calls[c] = [pc |-> "fetching", issueKey |-> issueKey]]

\* jira.openIssueYaml: the issue has been fetched, its YAML file written and
\* shown, and showIssue(issueKey, yamlUri) is called
ShowIssueWithYaml(k) ==
    /\ panel.calls["yaml"].pc = "idle"
    /\ panel' = showIssue([panel EXCEPT !.files[k] = k], "yaml", k, k)
    /\ UNCHANGED <<core, tree, related>>

\* jira.openIssue: showIssue(issueKey) next to the YAML command
ShowIssue(k) ==
    /\ panel.calls["preview"].pc = "idle"
    /\ panel' = showIssue(panel, "preview", k, "")
    /\ UNCHANGED <<core, tree, related>>

\* a panel made whether or not one is tracked
showIssueFetched_m(p, c) ==
    LET k == p.calls[c].issueKey
    IN  [p EXCEPT !.panels = Append(@, [open |-> TRUE, handlerKey |-> k, shown |-> k]),
                  !.currentPanel = Len(p.panels) + 1,
                  !.calls[c] = NoShow]

\* showIssue after getIssue and getComments: the tracked panel is revealed and
\* given the new html, or a panel is created and tracked
showIssueFetched(p, c) ==
    LET k == p.calls[c].issueKey
    IN  IF p.currentPanel # 0
        THEN [p EXCEPT !.panels[p.currentPanel].shown = k, !.calls[c] = NoShow]
        ELSE [p EXCEPT !.panels = Append(@, [open |-> TRUE, handlerKey |-> k, shown |-> k]),
                       !.currentPanel = Len(p.panels) + 1,
                       !.calls[c] = NoShow]

ShowIssueFetched(c) ==
    /\ panel.calls[c].pc = "fetching"
    /\ \E ok \in BOOLEAN :
         IF ~ok
         THEN panel' = [panel EXCEPT !.calls[c] = NoShow]
         ELSE /\ (panel.currentPanel = 0 => Len(panel.panels) < MaxPanels)
              /\ panel' = showIssueFetched(panel, c)
    /\ UNCHANGED <<core, tree, related>>

\* the user closes a panel: onDidDispose
DisposePanel(i) ==
    /\ i \in 1 .. Len(panel.panels) /\ panel.panels[i].open
    /\ panel' = [panel EXCEPT !.panels[i].open = FALSE, !.currentPanel = 0]
    /\ UNCHANGED <<core, tree, related>>

\* syncToYaml(issueKey) up to its first await; the cases of comments do not
\* call it
syncToYaml(p) ==
    IF p.handler.command = "addComment" \/ p.currentYamlUri = ""
    THEN [p EXCEPT !.handler = NoHandler]
    ELSE [p EXCEPT !.handler.pc = "syncing"]

\* refreshWebview(issueKey) up to its first await, and what follows it when
\* no panel is tracked
refreshWebview(p) ==
    IF p.currentPanel # 0 THEN [p EXCEPT !.handler.pc = "refreshing"] ELSE syncToYaml(p)

\* onDidReceiveMessage: the handler of panel i sends the change for the
\* issueKey it was created with
PanelMessage(i, command) ==
    /\ panel.handler.pc = "idle"
    /\ i \in 1 .. Len(panel.panels) /\ panel.panels[i].open
    /\ panel' = [panel EXCEPT !.handler = [pc |-> "acting", command |-> command,
                                           issueKey |-> panel.panels[i].handlerKey],
                              !.applied = [issue |-> panel.panels[i].handlerKey,
                                           displayed |-> panel.panels[i].shown]]
    /\ UNCHANGED <<core, tree, related>>

\* the change is answered; only updateIssueField catches a failure
HandlerActed ==
    /\ panel.handler.pc = "acting"
    /\ \E ok \in BOOLEAN :
         IF ~ok /\ panel.handler.command # "updateField"
         THEN panel' = [panel EXCEPT !.handler = NoHandler]
         ELSE panel' = refreshWebview(panel)
    /\ UNCHANGED <<core, tree, related>>

\* refreshWebview's getIssue and getComments are answered: the html of the
\* tracked panel is replaced (a TypeError when it is undefined by now)
HandlerRefreshed ==
    /\ panel.handler.pc = "refreshing"
    /\ \E ok \in BOOLEAN :
         IF ~ok \/ panel.currentPanel = 0
         THEN panel' = [panel EXCEPT !.handler = NoHandler]
         ELSE panel' = syncToYaml([panel EXCEPT !.panels[panel.currentPanel].shown =
                                                   panel.handler.issueKey])
    /\ UNCHANGED <<core, tree, related>>

\* syncToYaml's getIssue is answered: the whole of currentYamlUri is replaced
\* by issueToYaml(issue)
HandlerSynced ==
    /\ panel.handler.pc = "syncing"
    /\ \E ok \in BOOLEAN :
         IF ~ok
         THEN panel' = [panel EXCEPT !.handler = NoHandler]
         ELSE panel' = [panel EXCEPT !.files[panel.currentYamlUri] = panel.handler.issueKey,
                                    !.handler = NoHandler]
    /\ UNCHANGED <<core, tree, related>>

NextPanel ==
    \/ \E k \in PreviewKeys : ShowIssueWithYaml(k)
    \/ \E k \in PreviewKeys : ShowIssue(k)
    \/ \E c \in {"yaml", "preview"} : ShowIssueFetched(c)
    \/ \E i \in 1 .. MaxPanels : DisposePanel(i)
    \/ \E i \in 1 .. MaxPanels, command \in {"transitionStatus", "updateField", "addComment"} :
          PanelMessage(i, command)
    \/ HandlerActed
    \/ HandlerRefreshed
    \/ HandlerSynced

SpecPanel == InitPanel /\ [][NextPanel]_vars

(***************************************************************************)
(* The Confluence tree: getChildren calls and refresh()                    *)
(***************************************************************************)
\* if (!this.cache) { this.cache = await this.helper.fetch(); } return items
GetChildren(c, e) ==
    /\ tree.calls[c].pc = "idle"
    /\ tree' = IF tree.cache[e] = "null"
               THEN [tree EXCEPT !.calls[c] = [pc |-> "fetching", element |-> e,
                                               before |-> FALSE, result |-> "none"]]
               ELSE [tree EXCEPT !.calls[c] = [pc |-> "done", element |-> e,
                                               before |-> FALSE, result |-> tree.cache[e]]]
    /\ UNCHANGED <<core, panel, related>>

\* the helper's fetch is answered: the cache is assigned and the items are
\* made from it; a failure goes to the catch, which returns []
ChildrenFetched(c) ==
    /\ tree.calls[c].pc = "fetching"
    /\ \E ok \in BOOLEAN :
         LET call == tree.calls[c]
             data == IF call.before THEN "stale" ELSE "fresh"
         IN  IF ok
             THEN tree' = [tree EXCEPT !.cache[call.element] = data,
                                       !.calls[c] = [call EXCEPT !.pc = "done", !.result = data]]
             ELSE tree' = [tree EXCEPT !.calls[c] = [call EXCEPT !.pc = "done",
                                                                 !.result = "failed"]]
    /\ UNCHANGED <<core, panel, related>>

\* the view has taken the items
ChildrenReturned(c) ==
    /\ tree.calls[c].pc = "done"
    /\ tree' = [tree EXCEPT !.calls[c] = NoCall]
    /\ UNCHANGED <<core, panel, related>>

\* confluence.refreshTree
RefreshTree ==
    /\ tree' = refresh(tree)
    /\ UNCHANGED <<core, panel, related>>

NextTree ==
    \/ \E c \in TreeCalls, e \in TreeCaches : GetChildren(c, e)
    \/ \E c \in TreeCalls : ChildrenFetched(c)
    \/ \E c \in TreeCalls : ChildrenReturned(c)
    \/ RefreshTree

SpecTree == InitPanel /\ [][NextTree]_vars

(***************************************************************************)
(* JiraHelper.getRelatedIssues                                             *)
(***************************************************************************)
\* maxDepth: number = 2
DefaultDepth == 2

\* the keys of an issue's sub-tasks followed by those of its links
LinkLists ==
    {<<>>} \cup {<<j>> : j \in RelatedKeys} \cup {<<j, k>> : j, k \in RelatedKeys}

\* the visited set not looked at
gatherReturns_m(r, key, depth) == depth > r.maxDepth

\* if (depth > maxDepth || visited.has(key)) return
gatherReturns(r, key, depth) == depth > r.maxDepth \/ key \in r.visited

\* gather runs on from where it awaited, through the loops over sub-tasks and
\* links and the returns of finished gather calls, until the next getIssue
\* call or the end of the first gather
RECURSIVE resume(_)
resume(r) ==
    IF r.stack = <<>> THEN [r EXCEPT !.pc = "done"]
    ELSE LET f    == r.stack[Len(r.stack)]
             list == r.links[f.key]
             on   == [r.stack EXCEPT ![Len(r.stack)].next = @ + 1]
         IN  IF f.next > Len(list)
             THEN resume([r EXCEPT !.stack = SubSeq(r.stack, 1, Len(r.stack) - 1)])
             ELSE IF gatherReturns(r, list[f.next], f.depth + 1)
             THEN resume([r EXCEPT !.stack = on])
             ELSE [r EXCEPT !.pc = "fetching",
                            !.visited = @ \cup {list[f.next]},
                            !.fetches = Append(@, list[f.next]),
                            !.stack = Append(on, [key |-> list[f.next],
                                                  depth |-> f.depth + 1, next |-> 1])]

\* getRelatedIssues(issueKey, maxDepth) up to the first getIssue
GetRelatedIssues(issueKey, maxDepth) ==
    /\ related.pc = "none"
    /\ related' = [NoRelated EXCEPT !.pc = "fetching", !.maxDepth = maxDepth,
                                    !.visited = {issueKey}, !.fetches = <<issueKey>>,
                                    !.stack = <<[key |-> issueKey, depth |-> 0, next |-> 1]>>]
    /\ UNCHANGED <<core, panel, tree>>

\* getIssue is answered: the issue is pushed and its sub-tasks and links are
\* gathered, or the catch logs the error and the gather call returns
IssueFetched ==
    /\ related.pc = "fetching"
    /\ LET key == related.stack[Len(related.stack)].key
       IN  \/ \E list \in LinkLists :
                related' = resume([related EXCEPT !.allIssues = Append(@, key),
                                                  !.links[key] = list])
           \/ related' = resume([related EXCEPT !.failed = TRUE,
                                                !.stack = SubSeq(related.stack, 1,
                                                                 Len(related.stack) - 1)])
    /\ UNCHANGED <<core, panel, tree>>

NextRelated ==
    \/ \E maxDepth \in 0 .. DefaultDepth : GetRelatedIssues("REL-1", maxDepth)
    \/ IssueFetched

SpecRelated == InitPanel /\ [][NextRelated]_vars

\* every getIssue call is answered in the end
FairRelated == SpecRelated /\ WF_vars(IssueFetched)

(***************************************************************************)
(* Properties                                                              *)
(***************************************************************************)
Ok == <<>>

PageKinds == {"pageTool", "pageSave"}

IssueKinds == {"issueTool", "issueSave"}

AutoResolved == " (auto-resolved version conflict)"

Last(q) == q[Len(q)]

\* the first update was answered with the version-conflict signature
FirstConflict(o) == Len(o.answers) >= 1 /\ MessageIncludes(o.answers[1], ConflictSignature)

\* the version a getPage gave before the k-th update was sent
FetchedBefore(o, k) == o.fetched[o.sent[k].after]

\* C1: when the page tool's first update fails with the version-conflict
\* signature and the retry, sent with the freshly fetched version + 1, succeeds,
\* the tool returns success with the auto-resolved indication after exactly two
\* update attempts.
C1_ConflictRetrySucceeds ==
    \A s \in Slots :
        LET o == ops[s]
        IN  (/\ o.kind = "pageTool" /\ o.pc = "done"
             /\ FirstConflict(o)
             /\ Last(o.answers) = Ok)
            => /\ o.result = "success"
               /\ MessageIncludes(o.msg, AutoResolved)
               /\ o.updates = 2
               /\ Len(o.sent) = 2
               /\ o.sent[2].after >= 1
               /\ o.sent[2].number = FetchedBefore(o, 2).n + 1

C1_Witness ==
    \E s \in Slots :
        /\ ops[s].kind = "pageTool" /\ ops[s].pc = "done"
        /\ FirstConflict(ops[s])
        /\ Last(ops[s].answers) = Ok
        /\ ops[s].updates = 2

\* the getPage of the retry gave a version
Refetched(o) ==
    LET n == IF Truthy(o.provided) THEN 1 ELSE 2
    IN  Len(o.fetched) = n /\ Truthy(o.fetched[n])

C3_FirstVersion ==
    \A s \in Slots :
        LET o == ops[s]
        IN  (o.kind \in PageKinds /\ Len(o.sent) >= 1)
            => IF Truthy(o.provided)
               THEN o.sent[1].number = o.provided.n + 1
               ELSE /\ o.sent[1].after >= 1
                    /\ Truthy(FetchedBefore(o, 1))
                    /\ o.sent[1].number = FetchedBefore(o, 1).n + 1

\* C4: the retried update carries the re-fetched version + 1, not the version
\* first given + 1, and that is the version returned; given version 3 the first
\* update carries 4, and after a conflict and a re-fetch of 5 the retry carries
\* 6 and 6 is returned.
C4_RetryVersion ==
    \A s \in Slots :
        LET o == ops[s]
        IN  (o.kind = "pageTool" /\ FirstConflict(o) /\ Len(o.sent) = 2)
            => /\ o.sent[2].after = Len(o.fetched)
               /\ o.sent[2].after > o.sent[1].after
               /\ o.sent[2].number = Last(o.fetched).n + 1
               /\ (o.pc = "done" /\ o.result = "success")
                  => o.retVersion = o.sent[2].number
               /\ (o.provided = Num(3) /\ Last(o.fetched) = Num(5))
                  => /\ o.sent[1].number = 4
                     /\ o.sent[2].number = 6
                     /\ o.result = "success" => o.retVersion = 6

C4_Witness ==
    \E s \in Slots :
        /\ ops[s].kind = "pageTool" /\ ops[s].pc = "done"
        /\ ops[s].provided = Num(3)
        /\ FirstConflict(ops[s])
        /\ ops[s].fetched = <<Num(5)>>
        /\ ops[s].result = "success"
        /\ ops[s].retVersion = 6

\* C5: an issue update reads and sends no version and makes exactly one update
\* attempt, also when the answer carries the version-conflict signature.
C5_IssueUpdateOnce ==
    \A s \in Slots :
        LET o == ops[s]
        IN  o.kind \in IssueKinds
            => /\ o.sent = <<>>
               /\ o.fetched = <<>>
               /\ o.updates <= 1
               /\ Len(o.answers) >= 1 => o.pc = "done" /\ o.updates = 1

C5_Witness ==
    \E s \in Slots :
        /\ ops[s].kind \in IssueKinds /\ ops[s].pc = "done"
        /\ FirstConflict(ops[s])
        /\ ops[s].updates = 1
        /\ ops[s].result = "failed"

\* C6: a page update answered with an error that does not carry the
\* version-conflict signature is not retried: one update call, and the
\* operation fails (the save command showing that error in its message).
C6_OtherErrorNotRetried ==
    \A s \in Slots :
        LET o == ops[s]
        IN  (/\ o.kind \in PageKinds
             /\ Len(o.answers) >= 1
             /\ o.answers[1] # Ok
             /\ ~MessageIncludes(o.answers[1], ConflictSignature))
            => /\ o.pc = "done"
               /\ o.result = "failed"
               /\ o.updates = 1
               /\ o.kind = "pageSave"
                  => \A i \in DOMAIN o.answers[1] : MessageIncludes(o.msg, o.answers[1][i])

C6_Witness ==
    \E s \in Slots :
        /\ ops[s].kind = "pageTool" /\ ops[s].pc = "done"
        /\ ops[s].answers = <<ApiError("Confluence", "500", "Internal Server Error")>>
        /\ ops[s].updates = 1

SaveKinds == {"pageSave", "issueSave"}

\* the document names a not yet created entity
Sentinel(o) ==
    IF o.kind = "pageSave"
    THEN o.id = Str("new")
    ELSE o.provided = Str("new") \/ o.id = Str("NEW")

\* C7 as stated: a save whose identifier is the sentinel calls the create
\* endpoint and not the update endpoint, and a save with any other identifier
\* calls the update endpoint and not the create endpoint.
C7_RoutedAlways ==
    \A s \in Slots :
        LET o == ops[s]
        IN  (o.kind \in SaveKinds /\ o.parsed /\ o.pc = "done")
            => IF Sentinel(o)
               THEN o.creates = 1 /\ o.updates = 0
               ELSE o.updates = 1 /\ o.creates = 0

\* C7 (amended): a save with the sentinel never calls the update endpoint, and
\* calls the create endpoint exactly when the space or project key is known; a
\* save with another identifier never calls the create endpoint, and calls the
\* update endpoint exactly when the identifier (page id, issue key) is present.
C7_RoutedByIdentifier ==
    \A s \in Slots :
        LET o == ops[s]
        IN  (o.kind \in SaveKinds /\ o.parsed)
            => /\ Sentinel(o) => o.updates = 0
               /\ ~Sentinel(o) => o.creates = 0
               /\ o.pc = "done"
                  => IF Sentinel(o)
                     THEN o.creates = (IF Truthy(o.container) THEN 1 ELSE 0)
                     ELSE o.updates = (IF Truthy(o.id) THEN 1 ELSE 0)

C7_Witness ==
    \E s \in Slots :
        /\ ops[s].kind = "pageSave" /\ ops[s].pc = "done"
        /\ ops[s].id = Str("new")
        /\ ops[s].creates = 1 /\ ops[s].updates = 0
        /\ ops[s].result = "success"

\* a create or update call of a save is awaiting its answer
InFlight(o) == o.kind \in SaveKinds /\ o.pc \in {"update1", "create", "created"}

\* C8: two saves of one document never have a create or update call in flight
\* at the same time.
C8_SavesSerialized ==
    \A s1, s2 \in Slots :
        (s1 # s2 /\ InFlight(ops[s1]) /\ InFlight(ops[s2]))
        => ops[s1].doc # ops[s2].doc

PageConverters == {"yamlToPage", "extractPageContent"}

\* C9: a text with no or one marker line is converted without an exception, the
\* body is the whole text and nothing is taken from a preamble.
C9_FewMarkersAllBody ==
    (pop \in PageConverters /\ Cardinality(MarkerIdx(ptext)) <= 1)
    => /\ ~presult.threw
       /\ pop = "yamlToPage"
          => /\ presult.body = ptext
             /\ presult.id = Undef
             /\ presult.version = Undef
             /\ presult.spaceKey = Undef
             /\ presult.title = Str("Untitled")
       /\ pop = "extractPageContent"
          => /\ presult.content = ptext
             /\ presult.title = Str("Untitled")
             /\ presult.version = Num(1)

C9_Witness ==
    /\ pop = "yamlToPage"
    /\ Cardinality(MarkerIdx(ptext)) = 1
    /\ \E i \in DOMAIN ptext : ptext[i].t = "kv"
    /\ presult.body = ptext
    /\ presult.id = Undef

\* C10: no converter throws, whatever the text.
C10_ParsingNeverThrows == pop # "none" => ~presult.threw

\* C11: a page written by pageToYaml and read back by yamlToPage has the page's
\* identifier, title and body, whatever the title and the body are (empty,
\* with white space at either end, with marker lines in the body).
C11_RoundTripIdentity ==
    (entity.kind = "page" /\ pop = "yamlToPage")
    => /\ ~presult.threw
       /\ presult.id = entity.id
       /\ presult.title = entity.title
       /\ presult.body = PageContent(entity)

\* C12: the template of a new page or issue reads back with the identifier
\* "new", for every space or project key and with or without a parent id, and
\* so meets the condition on which the save commands create.
C12_TemplateIsNew ==
    /\ (entity.kind = "pageContext" /\ pop = "yamlToPage")
       => /\ ~presult.threw
          /\ presult.id = Str("new")
          /\ IsNewPage(presult)
          /\ presult.spaceKey = entity.spaceKey
    /\ (entity.kind = "issueContext" /\ pop = "yamlToIssue")
       => /\ ~presult.threw
          /\ presult.id = Str("new")
          /\ IsNewIssue(presult)

C12_Witness ==
    /\ entity.kind = "pageContext" /\ entity.parentId = Str("7")
    /\ pop = "yamlToPage"
    /\ presult.id = Str("new")
    /\ presult.spaceKey = Str("DEV")

\* the preamble has no value under the key
Absent(data, key) == Prop(data, key) = Undef

\* C13: a field whose key is absent from the preamble is undefined in what the
\* converters return (the partial entity and the update payload): nothing is
\* filled in for it.
C13_AbsentOmitted ==
    /\ (pop = "yamlToPage" /\ ~presult.threw)
       => \A f \in {"id", "type", "status", "title", "version"} :
              Absent(PageParts(ptext).frontmatter, f) => presult[f] = Undef
    /\ (pop = "extractPageContent" /\ ~presult.threw)
       => \A f \in {"title", "version"} :
              Absent(PageParts(ptext).frontmatter, f) => presult[f] = Undef
    /\ (pop = "yamlToIssue" /\ ~presult.threw)
       => (Absent(YamlLoad(ptext), "fields.summary") => presult.summary = Undef)
    /\ (pop = "extractIssueFields" /\ ~presult.threw)
       => \A f \in {"summary", "description", "priority"} :
              Absent(YamlLoad(ptext), "fields." \o f) => presult[f] = Undef

PagePreamble(text) == YamlLoad(SplitMarkers(text)[2])

\* C15: the document written for a remote entity has the entity's identifier
\* in its preamble, and for a page the preamble's version is the version of
\* the page it was written from.
C15_IdentifierAndVersion ==
    /\ (entity.kind = "page" /\ pop # "none")
       => /\ PagePreamble(ptext).kind = "map"
          /\ Prop(PagePreamble(ptext), "id") = entity.id
          /\ Prop(PagePreamble(ptext), "version") = entity.version
    /\ (entity.kind = "issue" /\ pop # "none")
       => /\ YamlLoad(ptext).kind = "map"
          /\ Prop(YamlLoad(ptext), "key") = entity.key
          /\ Prop(YamlLoad(ptext), "id") = entity.id

C15_Witness ==
    /\ entity.kind = "page" /\ pop = "pageToYaml"
    /\ entity.version = Num(3)
    /\ \E i \in DOMAIN entity.storage : entity.storage[i].t = "marker"
    /\ Prop(PagePreamble(ptext), "version") = Num(3)
    /\ Prop(PagePreamble(ptext), "id") = Str("42")

KeySeq(ls) == [i \in DOMAIN ls |-> ls[i].k]

PageKeyOrder ==
    <<"entityType", "id", "title", "type", "status", "spaceKey", "spaceName", "version">>

NewPageKeyOrder ==
    <<"entityType", "id", "title", "type", "status", "spaceKey", "parentId", "version">>

IssueKeyOrder ==
    <<"entityType", "key", "id", "fields.summary", "fields.description",
      "fields.status", "fields.assignee", "fields.assigneeEmail", "fields.reporter",
      "fields.reporterEmail", "fields.priority", "fields.issuetype",
      "fields.created", "fields.updated">>

NewIssueKeyOrder ==
    <<"entityType", "key", "id", "projectKey", "fields.summary", "fields.description",
      "fields.issuetype", "fields.priority", "fields.assignee", "fields.assigneeEmail">>

Saved(o) == o.pc = "done" /\ o.result = "success" /\ o.updates + o.creates >= 1

\* the entity was fetched again after the call: handed back, or opened again
Refreshed(o) == o.returned = "refetched" \/ o.reopened # Undef

\* C17: a save that ends with success hands back the entity as fetched again
\* from the remote after the create or update, and a confirmation message.
C17_DoneReturnsRefreshed ==
    \A s \in Slots :
        Saved(ops[s]) => Refreshed(ops[s]) /\ ops[s].msg # <<>>

\* the operation failed on the answer to its last update call
FailedOnUpdate(o) ==
    /\ o.pc = "done" /\ o.result = "failed"
    /\ Len(o.answers) >= 1
    /\ o.kind \in PageKinds => Len(o.fetched) = Last(o.sent).after

\* C18: the error of a save that failed names the entity being saved and
\* carries the message of the transport error.
C18_FailureNamesEntity ==
    \A s \in Slots :
        LET o == ops[s]
        IN  FailedOnUpdate(o)
            => /\ MessageIncludes(o.msg, o.id.s)
               /\ \A i \in DOMAIN Last(o.answers) :
                      MessageIncludes(o.msg, Last(o.answers)[i])

\* C19: a successful create from a "new" document is followed by opening the
\* entity again under the identifier the create call answered with, never the
\* sentinel; a failed create opens nothing and the operation ends failed.
C19_ReopenedUnderRealId ==
    \A s \in Slots :
        LET o == ops[s]
        IN  /\ o.reopened # Undef
               => /\ o.pc = "done" /\ o.result = "success" /\ o.creates = 1
                  /\ Sentinel(o)
                  /\ o.reopened = o.created
                  /\ o.reopened \notin {Str("new"), Str("NEW"), o.id, o.provided}
            /\ (o.kind \in SaveKinds /\ o.pc = "done" /\ o.creates = 1)
               => IF o.result = "success"
                  THEN o.created # Undef /\ o.reopened = o.created
                  ELSE o.result = "failed" /\ o.reopened = Undef

C19_Witness ==
    \E s \in Slots :
        /\ ops[s].kind = "pageSave" /\ ops[s].pc = "done"
        /\ ops[s].id = Str("new")
        /\ ops[s].creates = 1
        /\ ops[s].created = NewPageId
        /\ ops[s].reopened = NewPageId

Carries(text, part) ==
    \E i \in 1 .. Len(text) - Len(part) + 1 : SubSeq(text, i, i + Len(part) - 1) = part

SignatureChunks == <<"Version must be ", "incremented">>

NotConfiguredMessages == {"Confluence is not configured", "Jira is not configured"}

\* C22: when the connection settings are absent, every tool, save command, open
\* command and delete command ends at once with the configuration error: it
\* never waits for an answer, and no update, create, delete or get is sent
\* (so none is sent again).
C22_ConfigurationErrorFirst ==
    ~configured
    => \A s \in Slots :
         LET o == ops[s]
         IN  /\ o.pc \in {"idle", "done"}
             /\ o.updates = 0 /\ o.creates = 0 /\ o.deletes = 0
             /\ o.sent = <<>> /\ o.fetched = <<>> /\ o.answers = <<>>
             /\ o.pc = "done"
                => /\ o.result \in {"failed", "rejected"}
                   /\ \E m \in NotConfiguredMessages : MessageIncludes(o.msg, m)

C22_Witness ==
    /\ ~configured
    /\ ops["first"].kind = "issueTool" /\ ops["first"].pc = "done"
    /\ ops["first"].result = "failed"
    /\ MessageIncludes(ops["first"].msg, "Jira is not configured")

\* C23: the delete command calls the delete endpoint at most once, and only
\* after the dialog came back with 'Delete'; when the dialog is cancelled or
\* dismissed the command ends with no delete call.
C23_DeleteOnlyConfirmed ==
    \A s \in Slots :
        LET o == ops[s]
        IN  o.kind = "pageDelete"
            => /\ o.deletes <= 1
               /\ o.deletes = 1 => o.confirm = Str("Delete")
               /\ (o.pc = "done" /\ o.confirm # Str("Delete"))
                  => (o.deletes = 0 /\ o.result # "success")

C23_Witness ==
    /\ ops["first"].kind = "pageDelete" /\ ops["first"].pc = "done"
    /\ ops["first"].confirm = Str("Delete")
    /\ ops["first"].deletes = 1
    /\ ops["first"].result = "success"

\* answers that say nothing about the version: the request did not get through,
\* or the remote failed
TransportFailures == {SocketError, ApiError("Confluence", "500", "Internal Server Error")}

\* C24: an updatePage call whose version argument v is the page's version on the
\* remote when the remote takes it is accepted (unless the transport or the
\* remote fails), and the page it returns has version v + 1, which is then the
\* remote's version.
C24_CurrentVersionAccepted ==
    [][\A s \in Slots :
          (/\ ops[s].kind \in PageKinds
           /\ Len(ops'[s].answers) = Len(ops[s].answers) + 1
           /\ Last(ops[s].sent).version = remoteVersion
           /\ Last(ops'[s].answers) \notin TransportFailures)
          => /\ Last(ops'[s].answers) = Ok
             /\ ops'[s].result = "success"
             /\ ops'[s].retVersion = Last(ops[s].sent).version + 1
             /\ remoteVersion' = remoteVersion + 1]_vars

C24_Witness ==
    /\ ops["first"].kind \in PageKinds /\ ops["first"].result = "success"
    /\ Len(ops["first"].sent) >= 1
    /\ ops["first"].retVersion = Last(ops["first"].sent).version + 1
    /\ remoteVersion = ops["first"].retVersion

OpenPanels == {i \in 1 .. Len(panel.panels) : panel.panels[i].open}

\* C25: at most one preview panel is open at any time, whatever the order of
\* showIssue calls (overlapping ones too) and disposals; currentPanel is the
\* open panel, or undefined when none is open.
C25_OnePanel ==
    /\ Cardinality(OpenPanels) <= 1
    /\ panel.currentPanel = 0 => OpenPanels = {}
    /\ panel.currentPanel # 0 => OpenPanels = {panel.currentPanel}

C25_Witness ==
    /\ Len(panel.panels) = 2
    /\ ~panel.panels[1].open /\ panel.panels[2].open
    /\ panel.currentPanel = 2
    /\ panel.panels[2].shown # panel.panels[2].handlerKey

\* C26: a mutating action received from the panel is sent for the issue the
\* panel displayed when the message came, also after the panel was given
\* another issue to show.
C26_ActionOnDisplayed == panel.applied.issue = panel.applied.displayed

\* C27: the YAML file opened for issue K holds nothing but the serialization
\* of K: a sync after a change made in the preview never writes another
\* issue's serialization into it.
C27_FileHoldsItsIssue == \A k \in PreviewKeys : panel.files[k] \in {"", k}

\* C28: after refresh(), the items of every getChildren call begun after it
\* are made from data fetched after it, and no cache holds data that was
\* fetched before it.
C28_FreshAfterRefresh ==
    /\ \A e \in TreeCaches : tree.cache[e] # "stale"
    /\ \A c \in TreeCalls :
         (tree.calls[c].pc = "done" /\ ~tree.calls[c].before)
         => tree.calls[c].result # "stale"

\* how many times k is in q
Count(q, k) == Cardinality({i \in 1 .. Len(q) : q[i] = k})

Range(q) == {q[i] : i \in 1 .. Len(q)}

RECURSIVE Within(_)
Within(d) ==
    IF d = 0 THEN {related.fetches[1]}
    ELSE Within(d - 1) \cup UNION {Range(related.links[k]) : k \in Within(d - 1)}

\* C30: when no fetch failed, the list getRelatedIssues returns has exactly the
\* issues within maxDepth hops of the key: each issue whose shortest distance
\* is at most maxDepth, and none farther.
C30_ExactlyWithinDepth ==
    (related.pc = "done" /\ ~related.failed)
    => Range(related.allIssues) = Within(related.maxDepth)

====
